---------------------------- MODULE Spec2Model ----------------------------
(***************************************************************************)
(* DNA reverse complement tool (src/code.ipynb).                           *)
(*                                                                         *)
(* get_reverse_complement(sequence) is modelled statement by statement:    *)
(* a call owns a frame holding its local variables, the generator of       *)
(* all(...) and the generator of ''.join(...) advance one character per    *)
(* step.  main() is the interactive loop around it.  A character is a      *)
(* one-character string, a Python str is a tuple of characters.            *)
(***************************************************************************)
EXTENDS Naturals, Sequences, FiniteSets, TLC

VARIABLES
    frames,     \* caller -> locals of its running call of get_reverse_complement
    arg,        \* caller -> the str object the caller passed (None: no call)
    first,      \* caller -> argument of the first call of a round trip (None: first call)
    main_pc,    \* position of main(): start, input, check, call, done, crashed, off
    line,       \* the raw line input() returned last
    sequence,   \* main's local variable sequence (the stripped line)
    stdout,     \* what main has printed so far
    nread       \* number of input() calls made so far

vars == <<frames, arg, first, main_pc, line, sequence, stdout, nread>>

---------------------------------------------------------------------------
(* Bounds of the model.                                                    *)

\* longest sequence drawn exhaustively as an argument
MaxLen == 4
\* number of concurrent callers of get_reverse_complement
NCallers == 2
\* number of input() calls main makes before the model stops reading
MaxLines == 3

Callers == 1..NCallers
MainCaller == 1

\* Python's None, kept a tuple so it compares with every str of the model
None == <<"None">>

---------------------------------------------------------------------------
(* Python str helpers, computed as the interpreter computes them.          *)

\* set(s): the distinct characters of a str
set_of(s) == {s[k] : k \in 1..Len(s)}

\* s[::-1]
Reverse(s) == [k \in 1..Len(s) |-> s[Len(s) + 1 - k]]

\* characters str.strip() removes (the ones the model's lines contain)
whitespace == {" ", "\t"}

RECURSIVE lstrip(_)
lstrip(s) == IF s # <<>> /\ Head(s) \in whitespace THEN lstrip(Tail(s)) ELSE s

RECURSIVE rstrip(_)
rstrip(s) ==
    IF s # <<>> /\ s[Len(s)] \in whitespace THEN rstrip(SubSeq(s, 1, Len(s) - 1)) ELSE s

\* str.strip()
strip(s) == rstrip(lstrip(s))

ascii_uppercase ==
    <<"A","B","C","D","E","F","G","H","I","J","K","L","M",
      "N","O","P","Q","R","S","T","U","V","W","X","Y","Z">>
ascii_lowercase ==
    <<"a","b","c","d","e","f","g","h","i","j","k","l","m",
      "n","o","p","q","r","s","t","u","v","w","x","y","z">>

lower_char(ch) ==
    IF \E k \in 1..Len(ascii_uppercase) : ascii_uppercase[k] = ch
    THEN ascii_lowercase[CHOOSE k \in 1..Len(ascii_uppercase) : ascii_uppercase[k] = ch]
    ELSE ch

\* str.lower()
lower(s) == [k \in 1..Len(s) |-> lower_char(s[k])]

---------------------------------------------------------------------------
(* get_reverse_complement: its constants.                                  *)

\* complement_map with lowercase keys mapped to uppercase values
complement_map_upcasing ==
    ("A" :> "T") @@ ("T" :> "A") @@ ("G" :> "C") @@ ("C" :> "G") @@
    ("a" :> "T") @@ ("t" :> "A") @@ ("g" :> "C") @@ ("c" :> "G")

\* complement_map with a typo in one entry: 'C': 'C'
complement_map_typo ==
    ("A" :> "T") @@ ("T" :> "A") @@ ("G" :> "C") @@ ("C" :> "C") @@
    ("a" :> "t") @@ ("t" :> "a") @@ ("g" :> "c") @@ ("c" :> "g")

complement_map ==
    ("A" :> "T") @@ ("T" :> "A") @@
    ("G" :> "C") @@ ("C" :> "G") @@
    ("a" :> "t") @@ ("t" :> "a") @@
    ("g" :> "c") @@ ("c" :> "g")

\* valid_chars that also lets a blank through
valid_chars_with_blank == {"A", "T", "G", "C", "a", "t", "g", "c", " "}

\* set('ATGCatgc')
valid_chars == {"A", "T", "G", "C", "a", "t", "g", "c"}

\* set(sequence) - valid_chars cut down to the first offending character
first_invalid_only(s) ==
    IF \E k \in 1..Len(s) : s[k] \notin valid_chars
    THEN {s[CHOOSE k \in 1..Len(s) :
                /\ s[k] \notin valid_chars
                /\ \A j \in 1..(k - 1) : s[j] \in valid_chars]}
    ELSE {}

\* invalid_chars = set(sequence) - valid_chars
invalid_chars_of(s) == set_of(s) \ valid_chars

\* complement[::-1] forgotten: the complement is returned unreversed
complement_unreversed(complement) == complement

\* complement[:0:-1]: a reversing slice whose stop bound leaves out index 0
reverse_slice_to_zero(complement) ==
    [k \in 1..(IF Len(complement) = 0 THEN 0 ELSE Len(complement) - 1) |->
        complement[Len(complement) + 1 - k]]

\* return complement[::-1]
reverse_and_return(complement) == Reverse(complement)

---------------------------------------------------------------------------
(* get_reverse_complement: the frame of a call and its steps.              *)

IdleFrame ==
    [pc |-> "idle", sequence |-> <<>>, i |-> 0,
     invalid_chars |-> {}, complement |-> <<>>, result |-> None]

\* entering the function: the parameter is bound, all(...) starts at the first character
NewFrame(s) ==
    [pc |-> "validate", sequence |-> s, i |-> 1,
     invalid_chars |-> {}, complement |-> <<>>, result |-> None]

\* a join buffer shared by all calls instead of one per call
shared_join_buffer(fs, c) == fs[MainCaller].complement

\* the list ''.join(...) is accumulating for this call
join_buffer(fs, c) == fs[c].complement

Terminal(c) == frames[c].pc \in {"returned", "raised", "keyerror"}

\* f(sequence) is entered by caller c
Enter(c, s) ==
    /\ frames[c].pc = "idle"
    /\ frames' = [frames EXCEPT ![c] = NewFrame(s)]
    /\ arg' = [arg EXCEPT ![c] = s]

\* all(char in valid_chars for char in sequence): one character tested;
\* all() stops at the first False
ValidateChar(c) ==
    /\ frames[c].pc = "validate"
    /\ frames[c].i <= Len(frames[c].sequence)
    /\ frames' = [frames EXCEPT ![c] =
            IF frames[c].sequence[frames[c].i] \in valid_chars
            THEN [@ EXCEPT !.i = @ + 1]
            ELSE [@ EXCEPT !.pc = "invalid"]]
    /\ UNCHANGED <<arg, first, main_pc, line, sequence, stdout, nread>>

\* validation that also rejects the empty str ("if not sequence or not all(...)")
ValidateDone_rejecting_empty(c) ==
    /\ frames[c].pc = "validate"
    /\ frames[c].i > Len(frames[c].sequence)
    /\ frames' = [frames EXCEPT ![c] =
            IF Len(frames[c].sequence) = 0
            THEN [@ EXCEPT !.pc = "invalid"]
            ELSE [@ EXCEPT !.pc = "complement", !.i = 1]]
    /\ UNCHANGED <<arg, first, main_pc, line, sequence, stdout, nread>>

\* the generator is exhausted: all(...) is True, the join starts
ValidateDone(c) ==
    /\ frames[c].pc = "validate"
    /\ frames[c].i > Len(frames[c].sequence)
    /\ frames' = [frames EXCEPT ![c] = [@ EXCEPT !.pc = "complement", !.i = 1]]
    /\ UNCHANGED <<arg, first, main_pc, line, sequence, stdout, nread>>

\* invalid_chars = set(sequence) - valid_chars; raise ValueError(...)
RaiseValueError(c) ==
    /\ frames[c].pc = "invalid"
    /\ frames' = [frames EXCEPT ![c] =
            [@ EXCEPT !.pc = "raised",
                      !.invalid_chars = invalid_chars_of(frames[c].sequence)]]
    /\ UNCHANGED <<arg, first, main_pc, line, sequence, stdout, nread>>

\* complement_map[base] for the next base; a missing key raises KeyError
ComplementBase(c) ==
    /\ frames[c].pc = "complement"
    /\ frames[c].i <= Len(frames[c].sequence)
    /\ frames' = [frames EXCEPT ![c] =
            IF frames[c].sequence[frames[c].i] \in DOMAIN complement_map
            THEN [@ EXCEPT !.complement =
                        Append(join_buffer(frames, c),
                               complement_map[frames[c].sequence[frames[c].i]]),
                           !.i = @ + 1]
            ELSE [@ EXCEPT !.pc = "keyerror"]]
    /\ UNCHANGED <<arg, first, main_pc, line, sequence, stdout, nread>>

\* the join is complete; return complement[::-1]
ReverseReturn(c) ==
    /\ frames[c].pc = "complement"
    /\ frames[c].i > Len(frames[c].sequence)
    /\ frames' = [frames EXCEPT ![c] =
            [@ EXCEPT !.pc = "returned",
                      !.result = reverse_and_return(frames[c].complement)]]
    /\ UNCHANGED <<arg, first, main_pc, line, sequence, stdout, nread>>

\* one statement of some running call
CallStep ==
    \/ \E c \in Callers : ValidateChar(c)
    \/ \E c \in Callers : ValidateDone(c)
    \/ \E c \in Callers : RaiseValueError(c)
    \/ \E c \in Callers : ComplementBase(c)
    \/ \E c \in Callers : ReverseReturn(c)

---------------------------------------------------------------------------
(* Callers of the function: a program that calls it on an argument, and    *)
(* may call it again on what it got back.                                  *)

\* the characters arguments are drawn from: the alphabet, a letter outside it, a blank
Chars == {"A", "T", "G", "C", "a", "t", "g", "c", "X", " "}

SeqsUpTo(n) == UNION {[1..k -> Chars] : k \in 0..n}

\* test_sequences of the __main__ block, in order
test_sequences ==
    << <<"A","T","C","G">>,
       <<"A","A","A","T","T","T","G","G","G","C","C","C">>,
       <<"G","A","A","T","T","C">>,
       <<"A","A","G","C","T","T">>,
       <<"a","t","c","g">> >>

\* the tutorial's rejected sequence, "ATCGX"
invalid_example == <<"A","T","C","G","X">>

Inputs == SeqsUpTo(MaxLen) \cup set_of(test_sequences) \cup {invalid_example}

\* result = get_reverse_complement(s), for some s of S
Call(c, S) ==
    /\ frames[c].pc = "idle"
    /\ first[c] = None
    /\ \E s \in S : Enter(c, s)
    /\ UNCHANGED <<first, main_pc, line, sequence, stdout, nread>>

\* get_reverse_complement(result): the function applied to its own result
CallOnResult(c) ==
    /\ frames[c].pc = "returned"
    /\ first[c] = None
    /\ first' = [first EXCEPT ![c] = arg[c]]
    /\ frames' = [frames EXCEPT ![c] = NewFrame(frames[c].result)]
    /\ arg' = [arg EXCEPT ![c] = frames[c].result]
    /\ UNCHANGED <<main_pc, line, sequence, stdout, nread>>

\* the caller drops the outcome: the frame is gone
Finish(c) ==
    /\ Terminal(c)
    /\ frames' = [frames EXCEPT ![c] = IdleFrame]
    /\ arg' = [arg EXCEPT ![c] = None]
    /\ first' = [first EXCEPT ![c] = None]
    /\ UNCHANGED <<main_pc, line, sequence, stdout, nread>>

InitCalls ==
    /\ frames = [c \in Callers |-> IdleFrame]
    /\ arg = [c \in Callers |-> None]
    /\ first = [c \in Callers |-> None]

\* one caller, every argument up to MaxLen and the repository's examples
Init ==
    /\ InitCalls
    /\ main_pc = "off"
    /\ line = None
    /\ sequence = None
    /\ stdout = <<>>
    /\ nread = 0

Next ==
    \/ Call(MainCaller, Inputs)
    \/ CallStep
    \/ CallOnResult(MainCaller)
    \/ Finish(MainCaller)

Spec == Init /\ [][Next]_vars

---------------------------------------------------------------------------
(* Concurrent callers: every caller calls the function on its own          *)
(* argument, the statements of the calls interleave.                       *)

ConcInputs ==
    { <<>>, <<"A">>, <<"A","T","C","G">>, <<"a","t","c","g">>,
      <<"G","A","A","T","T","C">>, invalid_example, <<"A"," ","X">> }

NextConc ==
    \/ \E c \in Callers : Call(c, ConcInputs)
    \/ CallStep
    \/ \E c \in Callers : Finish(c)

SpecConc == Init /\ [][NextConc]_vars

---------------------------------------------------------------------------
(* The script: the __main__ block runs the test sequences, then main().    *)

\* one entry of stdout: what was printed, and the values formatted into it
Printed(kind, seq, text, chars) ==
    [kind |-> kind, sequence |-> seq, text |-> text, chars |-> chars]

quit_word == <<"q","u","i","t">>
exit_word == <<"e","x","i","t">>

\* the tutorial's list, without the empty string
exit_words_tutorial == {quit_word, exit_word}

\* ['quit', 'exit', '']
exit_words == {quit_word, exit_word, <<>>}

\* the lines typed at the prompt
InputLines ==
    { <<>>,
      <<" ","\t">>,
      quit_word,
      <<" ","Q","u","I","T"," ">>,
      <<"E","X","I","T">>,
      <<"e","x","i","t","\t">>,
      <<"A","T","C","G">>,
      <<" ","a","t","c","g"," ">>,
      <<"A","T","C","G","X">>,
      <<"A","T"," ","C","G">>,
      <<"q","u","i","t","s">> }

\* index of the next test sequence: the for loop has printed one line per sequence done
test_index == 1 + Cardinality({k \in 1..Len(stdout) : stdout[k].kind = "test"})

\* print("Test Results:"); print("-" * 40)
ScriptStart ==
    /\ main_pc = "script"
    /\ stdout' = Append(stdout, Printed("tests_header", None, None, {}))
    /\ main_pc' = "tests"
    /\ UNCHANGED <<frames, arg, first, line, sequence, nread>>

\* for seq in test_sequences: result = get_reverse_complement(seq)
TestCall ==
    /\ main_pc = "tests"
    /\ test_index <= Len(test_sequences)
    /\ Enter(MainCaller, test_sequences[test_index])
    /\ UNCHANGED <<first, main_pc, line, sequence, stdout, nread>>

\* print(f"{seq:15} -> {result}")
TestPrint ==
    /\ main_pc = "tests"
    /\ frames[MainCaller].pc = "returned"
    /\ stdout' = Append(stdout,
            Printed("test", arg[MainCaller], frames[MainCaller].result, {}))
    /\ frames' = [frames EXCEPT ![MainCaller] = IdleFrame]
    /\ arg' = [arg EXCEPT ![MainCaller] = None]
    /\ UNCHANGED <<first, main_pc, line, sequence, nread>>

\* the loop is over: print(); main() prints its banner and reaches input()
TestsDone ==
    /\ main_pc = "tests"
    /\ frames[MainCaller].pc = "idle"
    /\ test_index > Len(test_sequences)
    /\ stdout' = Append(stdout, Printed("banner", None, None, {}))
    /\ main_pc' = "input"
    /\ UNCHANGED <<frames, arg, first, line, sequence, nread>>

\* sequence = input("Enter DNA sequence: ").strip()
ReadLine(l) ==
    /\ main_pc = "input"
    /\ nread < MaxLines
    /\ line' = l
    /\ sequence' = strip(l)
    /\ nread' = nread + 1
    /\ main_pc' = "check"
    /\ UNCHANGED <<frames, arg, first, stdout>>

\* input() at end of input raises EOFError, which no except clause of main catches
ReadEOF ==
    /\ main_pc = "input"
    /\ line' = None
    /\ main_pc' = "crashed"
    /\ UNCHANGED <<frames, arg, first, sequence, stdout, nread>>

\* if sequence.lower() in ['quit', 'exit', '']: print("Goodbye!"); break
ExitLoop ==
    /\ main_pc = "check"
    /\ lower(sequence) \in exit_words
    /\ stdout' = Append(stdout, Printed("goodbye", None, None, {}))
    /\ main_pc' = "done"
    /\ UNCHANGED <<frames, arg, first, line, sequence, nread>>

\* reverse_comp = get_reverse_complement(sequence)
MainCall ==
    /\ main_pc = "check"
    /\ lower(sequence) \notin exit_words
    /\ Enter(MainCaller, sequence)
    /\ main_pc' = "call"
    /\ UNCHANGED <<first, line, sequence, stdout, nread>>

\* print Original / Reverse complement / blank line, then loop
PrintResult ==
    /\ main_pc = "call"
    /\ frames[MainCaller].pc = "returned"
    /\ stdout' = Append(stdout,
            Printed("result", sequence, frames[MainCaller].result, {}))
    /\ frames' = [frames EXCEPT ![MainCaller] = IdleFrame]
    /\ arg' = [arg EXCEPT ![MainCaller] = None]
    /\ main_pc' = "input"
    /\ UNCHANGED <<first, line, sequence, nread>>

\* except ValueError as e: print(f"Error: {e}"); print("Please enter ..."), then loop
PrintError ==
    /\ main_pc = "call"
    /\ frames[MainCaller].pc = "raised"
    /\ stdout' = Append(stdout,
            Printed("error", None, None, frames[MainCaller].invalid_chars))
    /\ frames' = [frames EXCEPT ![MainCaller] = IdleFrame]
    /\ arg' = [arg EXCEPT ![MainCaller] = None]
    /\ main_pc' = "input"
    /\ UNCHANGED <<first, line, sequence, nread>>

\* except KeyboardInterrupt: print("\nGoodbye!"); break -- anywhere in the try body
KeyboardInterrupt ==
    /\ main_pc \in {"input", "check", "call"}
    /\ stdout' = Append(stdout, Printed("interrupt_goodbye", None, None, {}))
    /\ frames' = [frames EXCEPT ![MainCaller] = IdleFrame]
    /\ arg' = [arg EXCEPT ![MainCaller] = None]
    /\ main_pc' = "done"
    /\ UNCHANGED <<first, line, sequence, nread>>

InitMain ==
    /\ InitCalls
    /\ main_pc = "script"
    /\ line = None
    /\ sequence = None
    /\ stdout = <<>>
    /\ nread = 0

NextMain ==
    \/ ScriptStart
    \/ TestCall
    \/ TestPrint
    \/ TestsDone
    \/ \E l \in InputLines : ReadLine(l)
    \/ ReadEOF
    \/ ExitLoop
    \/ MainCall
    \/ CallStep
    \/ PrintResult
    \/ PrintError
    \/ KeyboardInterrupt

SpecMain == InitMain /\ [][NextMain]_vars

---------------------------------------------------------------------------
(* The vocabulary of the claims, stated without the code's tables.         *)

\* the allowed alphabet
Alphabet == {"A", "T", "G", "C", "a", "t", "g", "c"}

UpperBases == {"A", "T", "G", "C"}
LowerBases == {"a", "t", "g", "c"}

\* the fixed pairing A<->T, G<->C, a<->t, g<->c
Pair(ch) ==
    CASE ch = "A" -> "T" [] ch = "T" -> "A" [] ch = "G" -> "C" [] ch = "C" -> "G"
      [] ch = "a" -> "t" [] ch = "t" -> "a" [] ch = "g" -> "c" [] ch = "c" -> "g"

IsValidSeq(s) == \A k \in 1..Len(s) : s[k] \in Alphabet

\* the distinct characters of s outside the alphabet
Offending(s) == {ch \in {s[k] : k \in 1..Len(s)} : ch \notin Alphabet}

\* the call of caller c has ended, by return or by exception
Ended(c) == frames[c].pc \in {"returned", "raised", "keyerror"}

---------------------------------------------------------------------------
(* Claims on the transform, checked under Spec.                            *)

\* C1: for a valid argument s of length n the call returns r of length n with
\* r[i] the complement of s[n-1-i] under the fixed pairing; ATCG gives CGAT,
\* A gives T, and AT, GAATTC and AAGCTT map to themselves.
C1_ReverseComplement ==
    \A c \in Callers :
        (Ended(c) /\ IsValidSeq(arg[c])) =>
            /\ frames[c].pc = "returned"
            /\ Len(frames[c].result) = Len(arg[c])
            /\ \A k \in 1..Len(arg[c]) :
                    frames[c].result[k] = Pair(arg[c][Len(arg[c]) + 1 - k])
            /\ arg[c] = <<"A","T","C","G">> => frames[c].result = <<"C","G","A","T">>
            /\ arg[c] = <<"A">> => frames[c].result = <<"T">>
            /\ arg[c] = <<"A","T">> => frames[c].result = <<"A","T">>
            /\ arg[c] = <<"G","A","A","T","T","C">>
                    => frames[c].result = <<"G","A","A","T","T","C">>
            /\ arg[c] = <<"A","A","G","C","T","T">>
                    => frames[c].result = <<"A","A","G","C","T","T">>

\* C1 witness: the call on ATCG has returned CGAT
C1_Witness ==
    \E c \in Callers :
        /\ frames[c].pc = "returned"
        /\ arg[c] = <<"A","T","C","G">>
        /\ frames[c].result = <<"C","G","A","T">>

\* C2: involution: the call on the result of a call on a valid s (mixed case
\* and empty included) succeeds and returns s exactly.
C2_Involution ==
    \A c \in Callers :
        (Ended(c) /\ first[c] # None) =>
            /\ frames[c].pc = "returned"
            /\ frames[c].result = first[c]

\* C2 witness: a mixed-case round trip has come back to its start
C2_Witness ==
    \E c \in Callers :
        /\ first[c] = <<"a","G","t">>
        /\ arg[c] = <<"a","C","t">>
        /\ frames[c].pc = "returned"
        /\ frames[c].result = <<"a","G","t">>

\* C3: an argument with a character outside the alphabet (a blank included) is
\* rejected with the invalid-sequence error, which carries exactly the set of
\* all distinct offending characters; ATCGX reports exactly {X}.
C3_Rejection ==
    \A c \in Callers :
        (Ended(c) /\ ~IsValidSeq(arg[c])) =>
            /\ frames[c].pc = "raised"
            /\ frames[c].invalid_chars = Offending(arg[c])
            /\ arg[c] = <<"A","T","C","G","X">> => frames[c].invalid_chars = {"X"}

\* C3 witness: a rejection that reports two offending characters, the second
\* one a blank met after the first
C3_Witness ==
    \E c \in Callers :
        /\ frames[c].pc = "raised"
        /\ arg[c] = <<"X","A"," ">>
        /\ frames[c].invalid_chars = {"X", " "}

\* C4: a call ends in exactly one of two ways: it raises iff some character is
\* outside the alphabet, and then nothing was complemented and nothing is
\* returned; otherwise it returns the whole transformed sequence.  No character
\* is substituted before every character has been validated.
C4_NoPartialSuccess ==
    \A c \in Callers :
        /\ Ended(c) =>
            /\ frames[c].pc \in {"returned", "raised"}
            /\ (frames[c].pc = "raised") <=> ~IsValidSeq(arg[c])
            /\ (frames[c].pc = "returned") <=> IsValidSeq(arg[c])
        /\ frames[c].pc \in {"invalid", "raised"} =>
            /\ frames[c].complement = <<>>
            /\ frames[c].result = None
        /\ frames[c].pc = "returned" =>
            /\ frames[c].invalid_chars = {}
            /\ Len(frames[c].complement) = Len(arg[c])
            /\ frames[c].result # None
        /\ (frames[c].complement # <<>> \/ frames[c].pc = "complement") =>
            IsValidSeq(frames[c].sequence)

\* C4 witness: a rejection whose offending character comes last, with nothing
\* complemented
C4_Witness ==
    \E c \in Callers :
        /\ frames[c].pc = "raised"
        /\ arg[c] = <<"A","T"," ">>
        /\ frames[c].complement = <<>>
        /\ frames[c].result = None

\* C5: length preservation: what a call returns is as long as its argument.
C5_LengthPreserved ==
    \A c \in Callers :
        frames[c].pc = "returned" => Len(frames[c].result) = Len(arg[c])

\* C5 witness: a call on a sequence of the longest exhaustive length has returned
C5_Witness ==
    \E c \in Callers :
        /\ frames[c].pc = "returned"
        /\ Len(arg[c]) = MaxLen
        /\ Len(frames[c].result) = MaxLen

\* C6: case preservation per position: the character returned at position
\* n-1-i is uppercase iff s[i] is uppercase, lowercase iff s[i] is lowercase;
\* atcg gives cgat.
C6_CasePreserved ==
    \A c \in Callers :
        frames[c].pc = "returned" =>
            /\ \A k \in 1..Len(arg[c]) :
                /\ arg[c][k] \in UpperBases
                        => frames[c].result[Len(arg[c]) + 1 - k] \in UpperBases
                /\ arg[c][k] \in LowerBases
                        => frames[c].result[Len(arg[c]) + 1 - k] \in LowerBases
            /\ arg[c] = <<"a","t","c","g">> => frames[c].result = <<"c","g","a","t">>

\* C6 witness: a mixed-case argument has been transformed
C6_Witness ==
    \E c \in Callers :
        /\ frames[c].pc = "returned"
        /\ arg[c] = <<"A","t","G">>
        /\ frames[c].result = <<"C","a","T">>

\* C7: the empty sequence is accepted: the call returns the empty sequence.
C7_EmptyAccepted ==
    \A c \in Callers :
        (Ended(c) /\ arg[c] = <<>>) =>
            /\ frames[c].pc = "returned"
            /\ frames[c].result = <<>>

\* C7 witness: the call on the empty sequence has returned
C7_Witness ==
    \E c \in Callers :
        /\ frames[c].pc = "returned"
        /\ arg[c] = <<>>
        /\ frames[c].result = <<>>

---------------------------------------------------------------------------
(* Claim on concurrent callers, checked under SpecConc.                    *)

\* C10: whatever the interleaving of the callers' calls, each call ends with
\* the outcome it has alone on its own argument (the transformed sequence for
\* a valid argument, the rejection with all offending characters otherwise),
\* and the argument it was given is still the caller's sequence, unchanged.
C10_CallsIndependent ==
    \A c \in Callers :
        /\ frames[c].pc # "idle" => frames[c].sequence = arg[c]
        /\ Ended(c) =>
            IF IsValidSeq(arg[c])
            THEN /\ frames[c].pc = "returned"
                 /\ Len(frames[c].result) = Len(arg[c])
                 /\ \A k \in 1..Len(arg[c]) :
                        frames[c].result[k] = Pair(arg[c][Len(arg[c]) + 1 - k])
            ELSE /\ frames[c].pc = "raised"
                 /\ frames[c].invalid_chars = Offending(arg[c])
                 /\ frames[c].result = None

\* C10 witness: caller 2 has returned while caller 1 is in the middle of its
\* own join, and caller 1's buffer holds only its own characters
C10_Witness ==
    /\ frames[1].pc = "complement"
    /\ arg[1] = <<"G","A","A","T","T","C">>
    /\ frames[1].complement = <<"C","T","T">>
    /\ frames[2].pc = "returned"
    /\ arg[2] = <<"a","t","c","g">>
    /\ frames[2].result = <<"c","g","a","t">>

---------------------------------------------------------------------------
(* Claims on the interactive shell, checked under SpecMain.                *)

Blank == {" ", "\t"}

\* l without its leading and trailing blanks
Trimmed(l) ==
    IF \A k \in 1..Len(l) : l[k] \in Blank
    THEN <<>>
    ELSE LET nonblank == {k \in 1..Len(l) : l[k] \notin Blank}
             lo == CHOOSE k \in nonblank : \A j \in nonblank : k <= j
             hi == CHOOSE k \in nonblank : \A j \in nonblank : j <= k
         IN  SubSeq(l, lo, hi)

\* t spells the word, each letter in either case
SpellsWord(t, small, capital) ==
    /\ Len(t) = Len(small)
    /\ \A k \in 1..Len(small) : t[k] \in {small[k], capital[k]}

\* the line is a termination token: empty, quit or exit once trimmed
IsTerminationToken(l) ==
    \/ Trimmed(l) = <<>>
    \/ SpellsWord(Trimmed(l), <<"q","u","i","t">>, <<"Q","U","I","T">>)
    \/ SpellsWord(Trimmed(l), <<"e","x","i","t">>, <<"E","X","I","T">>)

Interrupted == stdout # <<>> /\ stdout[Len(stdout)].kind = "interrupt_goodbye"

\* number of per-line outputs (result or error) printed so far
LineOutputs ==
    Cardinality({k \in 1..Len(stdout) : stdout[k].kind \in {"result", "error"}})

C9_ShellStopsOnlyOnToken ==
    /\ main_pc = "input" => LineOutputs = nread
    /\ main_pc \in {"check", "call"} => LineOutputs = nread - 1
    /\ (main_pc = "input" /\ nread > 0) =>
            /\ ~IsTerminationToken(line)
            /\ stdout[Len(stdout)].kind =
                    IF IsValidSeq(Trimmed(line)) THEN "result" ELSE "error"
    /\ main_pc \in {"done", "crashed"} =>
            \/ Interrupted
            \/ line # None /\ IsTerminationToken(line)

\* what of C9 the shell does keep: the same, with end of input as a third way
\* for the shell to stop
ShellLoopExceptEOF ==
    /\ main_pc = "input" => LineOutputs = nread
    /\ main_pc \in {"check", "call"} => LineOutputs = nread - 1
    /\ (main_pc = "input" /\ nread > 0) =>
            /\ ~IsTerminationToken(line)
            /\ stdout[Len(stdout)].kind =
                    IF IsValidSeq(Trimmed(line)) THEN "result" ELSE "error"
    /\ main_pc = "done" =>
            \/ Interrupted
            \/ line # None /\ IsTerminationToken(line)
    /\ main_pc = "crashed" => line = None /\ ~Interrupted

=============================================================================
